---------------------------- MODULE Spec2Model ----------------------------
(***************************************************************************)
(* The embedding cache / similarity index protocol of the book catalogue's *)
(* recommendation engine (src/ml): Settings, the memoized loaders of       *)
(* cache.py, initialize_vectorstore with its batches, the engine's lazy    *)
(* initialization and its two queries, and the sidebar's provider/cache    *)
(* selector.                                                               *)
(*                                                                         *)
(* Texts are sequences of characters, so that str.lower() and str.strip()  *)
(* are computed, not assumed.  An embedding vector is the pair (embedding  *)
(* model that produced it, text it was produced from): the provider is an  *)
(* opaque deterministic function of both.  The nearest-neighbour search of *)
(* the similarity library is opaque: any ranking of min(k, n) distinct     *)
(* documents of the index is a possible answer.                            *)
(***************************************************************************)
EXTENDS Integers, Sequences, FiniteSets, TLC

VARIABLES
    books_df,      \* the catalogue as pd.read_csv(books_path) gives it
    settings,      \* Settings singleton: provider, local_model, cache_dir_name
    cfg,           \* Settings singleton, the attributes save() does not write by itself:
                   \* batch_size, lower_embeddings, batch_delay_seconds, text_column
    settings_json, \* settings.json (= Settings._data between calls): json key -> value
    ml_enabled,    \* the attribute Settings().ml_enabled: "unset", "true" or "false"
    dirs,          \* the cache directories that exist under ml_dir
    cacheFile,     \* per cache directory: the pickled embeddings cache
    faissIndex,    \* per cache directory: the saved FAISS index
    memoCache,     \* st.cache_resource of load_embeddings_cache, keyed by directory
    memoVS,        \* st.cache_resource of load_vectorstore, keyed by (dir, provider, model)
    engine,        \* the RecommendationEngine held by get_recommendation_engine
    pc,            \* where the running _ensure_initialized is: idle, embed, build
    att,           \* the locals of the running initialize_vectorstore / _embed_books
    lastResult,    \* what the latest step returned or raised to the caller, if anything
    providerCall,  \* the embed_documents call of the latest step, if it made one
    faults,        \* number of files damaged so far
    remembered,    \* one earlier selection of render_cache_selector (history)
    runs,          \* per session thread: its _ensure_initialized on the shared engine,
                   \* statement by statement (used where two sessions race)
    browser        \* the catalogue browser of iteration3.py: st.session_state of the
                   \* open tab and what its latest script run showed

vars == <<books_df, settings, cfg, settings_json, ml_enabled, dirs, cacheFile, faissIndex, memoCache, memoVS,
          engine, pc, att, lastResult, providerCall, faults, remembered, runs, browser>>

---------------------------------------------------------------------------
(* Bounds *)

\* rows of the catalogue (a prefix of CataloguePool)
NumRows == 4
\* largest result count a query asks for
MaxK == 2
\* largest batch_size the settings file is given
MaxBatch == 2
\* files that may become unreadable
MaxFaults == 1
\* cache directories that exist when the selector is first rendered
MaxInitDirs == 1
\* rows of the catalogues a cold start is run on
MaxColdRows == 2
\* keys of the dictionaries handed to save_embeddings_cache on its own
MaxPickleKeys == 2

---------------------------------------------------------------------------
(* Texts *)

Whitespace == {" "}

LowerChar(c) ==
    CASE c = "A" -> "a"
      [] c = "D" -> "d"
      [] c = "E" -> "e"
      [] OTHER -> c

\* str.lower()
Lower(t) == [i \in 1..Len(t) |-> LowerChar(t[i])]

\* not str(text).strip()
StripIsEmpty(t) == \A i \in 1..Len(t) : t[i] \in Whitespace

---------------------------------------------------------------------------
(* iteration3.py: paginate_items.  A list is known by its length; a query  *)
(* or a letter is known by the length of the list it selects.              *)

\* the options of the "Books per page" selectbox
PerPageOptions == {5, 10, 20}

\* the length of the longest list browsed
MaxItems == 21

\* the empty query
NoQuery == 0 - 1

\* line 51: max(1, (len(items) - 1) // items_per_page + 1)
TotalPages(n, items_per_page) ==
    LET pages == ((n - 1) \div items_per_page) + 1
    IN  IF pages > 1 THEN pages ELSE 1

\* lines 101-106: len(items[start:end])
PageLen(n, page, items_per_page) ==
    LET start == page * items_per_page
        end == IF start + items_per_page < n THEN start + items_per_page ELSE n
    IN  IF end > start THEN end - start ELSE 0

\* st.number_input with a st.session_state value above max_value is library code: it
\* raises, it renders with the value as it is, or it renders with the value cut down
NumberInputOutcomes(value, max_value) ==
    IF value > max_value THEN {"raises", "renders", "clamps"} ELSE {"renders"}

\* paginate_items on a list of b.n items
Paginate(b) ==
    LET total_pages == TotalPages(b.n, b.per_page)
    IN  { IF o = "raises"
          THEN [b EXCEPT !.out = "error", !.shown = 0]
          ELSE [b EXCEPT !.out = "shown",
                         !.page_input = IF o = "clamps" THEN total_pages ELSE b.page_input,
                         !.shown = PageLen(b.n, b.page, b.per_page)] :
          o \in NumberInputOutcomes(b.page_input, total_pages) }

\* one run of the script on the open tab, the widgets holding key (the query or the
\* letter) and per_page: lines 181-223 (search: no list for the empty query, st.stop
\* for no result) and lines 271-314 (sort: always a list)
ScriptRun(b, key, per_page, event) ==
    LET b1 == [b EXCEPT !.last = key,
                        !.page = IF key # b.last THEN 0 ELSE b.page,
                        !.n = IF key = NoQuery THEN 0 ELSE key,
                        !.per_page = per_page,
                        !.event = event]
    IN  IF b.tab = "search" /\ b1.n = 0
        THEN {[b1 EXCEPT !.out = "none", !.shown = 0]}
        ELSE Paginate(b1)

---------------------------------------------------------------------------
(* The catalogue (books.csv): bookId, title and the text column.  has_text *)
(* is FALSE where the column is missing (pd.isna).                         *)

CataloguePool ==
    << [bookId |-> "b1", title |-> "t1", has_text |-> TRUE,  text |-> <<"A", "b">>],
       [bookId |-> "b2", title |-> "t2", has_text |-> TRUE,  text |-> <<" ">>],
       [bookId |-> "b3", title |-> "t3", has_text |-> TRUE,  text |-> <<"c">>],
       [bookId |-> "b4", title |-> "t4", has_text |-> TRUE,  text |-> <<"D">>],
       [bookId |-> "b5", title |-> "t5", has_text |-> FALSE, text |-> <<>>],
       [bookId |-> "b6", title |-> "t6", has_text |-> TRUE,  text |-> <<>>],
       [bookId |-> "b7", title |-> "t7", has_text |-> TRUE,  text |-> <<"E">>] >>

Books == SubSeq(CataloguePool, 1, IF NumRows < Len(CataloguePool) THEN NumRows ELSE Len(CataloguePool))

BookIds == {books_df[i].bookId : i \in 1..Len(books_df)}

\* pd.isna(text) or not str(text).strip()
IsBlank(row) == ~row.has_text \/ StripIsEmpty(row.text)

BlankIds == {books_df[i].bookId : i \in {j \in 1..Len(books_df) : IsBlank(books_df[j])}}

\* str(text).lower() if settings.lower_embeddings else str(text)
ProcessText(lower_embeddings, t) == IF lower_embeddings THEN Lower(t) ELSE t

---------------------------------------------------------------------------
(* Providers, models, directories *)

Providers == {"lmstudio", "gemini", "local"}

LocalModelNames == {"minilm", "gemma-300m", "qwen-0.6b", "qwen-8b"}

\* LOCAL_MODEL_TO_CACHE
LocalModelToCache(m) ==
    CASE m = "qwen-0.6b"  -> "cache-qwen0.6"
      [] m = "gemma-300m" -> "cache-gemma0.3"
      [] m = "qwen-8b"    -> "cache-qwen8"
      [] OTHER            -> "cache-minilm"

LocalCacheDirs == {LocalModelToCache(m) : m \in LocalModelNames}

\* CACHE_TO_LOCAL_MODEL.get(cache, default)
CacheToLocalModel(cache, default) ==
    IF \E m \in LocalModelNames : LocalModelToCache(m) = cache
    THEN CHOOSE m \in LocalModelNames : LocalModelToCache(m) = cache
    ELSE default

GeminiCacheDir == "cache-gemini"

AllDirs == {"cache", GeminiCacheDir} \cup LocalCacheDirs

\* the values _load gives when settings.json names none
DefaultSettings == [provider |-> "lmstudio", local_model |-> "minilm", cache_dir_name |-> "cache"]

\* the identities Settings.update is called with
UpdateIdentities ==
    { DefaultSettings,
      [provider |-> "gemini", local_model |-> "minilm", cache_dir_name |-> GeminiCacheDir] }

\* the values of the attributes save() does not write by itself, as the model runs
\* the engine with them
Configs ==
    [batch_size : 1..MaxBatch, lower_embeddings : BOOLEAN, batch_delay_seconds : {1},
     text_column : {"description"}]

\* a settings.json that names every option: the file _load gives these attributes for
FullJson(s, c) ==
    [cache_dir |-> s.cache_dir_name, provider |-> s.provider, local_model |-> s.local_model,
     batch_size |-> c.batch_size, batch_delay_seconds |-> c.batch_delay_seconds,
     lower_embeddings |-> c.lower_embeddings, text_column |-> c.text_column]

\* Settings.save lines 65-70: the three keys save() sets in _data before writing it
SaveData(data, s) ==
    [k \in DOMAIN data \cup {"cache_dir", "provider", "local_model"} |->
        CASE k = "cache_dir"   -> s.cache_dir_name
          [] k = "provider"    -> s.provider
          [] k = "local_model" -> s.local_model
          [] OTHER             -> data[k]]

\* the attributes Settings.update is called for
SettingAttrs ==
    {"cache_dir_name", "provider", "local_model", "batch_size", "batch_delay_seconds",
     "lower_embeddings", "text_column"}

\* the key of settings.json an attribute is read from
JsonKey(a) == IF a = "cache_dir_name" THEN "cache_dir" ELSE a

\* _load lines 32-44: the second argument of each self._data.get
DefaultOf(a) ==
    CASE a = "cache_dir_name"        -> "cache"
      [] a = "provider"              -> "lmstudio"
      [] a = "local_model"           -> "minilm"
      [] a = "batch_size"            -> 512
      [] a = "batch_delay_seconds"   -> 1
      [] a = "lower_embeddings"      -> TRUE
      [] a = "text_column"           -> "description"

\* _load: self._data.get(key, default)
LoadAttr(data, a) == IF JsonKey(a) \in DOMAIN data THEN data[JsonKey(a)] ELSE DefaultOf(a)

LoadSettings(data) ==
    [provider |-> LoadAttr(data, "provider"), local_model |-> LoadAttr(data, "local_model"),
     cache_dir_name |-> LoadAttr(data, "cache_dir_name")]

LoadCfg(data) ==
    [batch_size |-> LoadAttr(data, "batch_size"),
     lower_embeddings |-> LoadAttr(data, "lower_embeddings"),
     batch_delay_seconds |-> LoadAttr(data, "batch_delay_seconds"),
     text_column |-> LoadAttr(data, "text_column")]

\* Settings.update lines 77-84: what the loop leaves in self._data
UpdateData(data, kwargs) ==
    [k \in DOMAIN data \cup (IF "cache_dir_name" \in DOMAIN kwargs THEN {"cache_dir"} ELSE {}) |->
        IF k = "cache_dir" /\ "cache_dir_name" \in DOMAIN kwargs THEN kwargs["cache_dir_name"]
        ELSE IF k \in DOMAIN kwargs /\ k # "cache_dir_name" THEN kwargs[k]
        ELSE data[k]]

NoIdent == [provider |-> "-", local_model |-> "-", cache_dir_name |-> "-"]

NoModel == [provider |-> "-", model |-> "-"]

\* get_embeddings(provider, local_model): the embedding model object
GetEmbeddings(provider, local_model) ==
    [provider |-> provider, model |-> IF provider = "local" THEN local_model ELSE "-"]

\* embed_documents / embed_query of a model on one text
Embed(model, t) == [by |-> model, of |-> t]

---------------------------------------------------------------------------
(* Values *)

NoFile == [st |-> "absent", data |-> <<>>]
CorruptFile == [st |-> "corrupt", data |-> <<>>]
OkFile(d) == [st |-> "ok", data |-> d]

NoMemo == [hit |-> FALSE, val |-> <<>>]

NoneVS == [some |-> FALSE, docs |-> <<>>, model |-> NoModel]
NoneEC == [some |-> FALSE, map |-> <<>>]

NoCall == [op |-> "-", text |-> <<>>, book_id |-> "-", k |-> 0]

\* cache0, keys0, index0: the dictionary, the keys of the cache file and the index
\* file as they were when initialize_vectorstore began; sent: the rows whose texts
\* were handed to embed_documents so far; batches: the turns of the loop completed
NoAtt == [call |-> NoCall, cache |-> <<>>, books |-> <<>>, i |-> 0,
          model |-> NoModel, ident |-> NoIdent, keys0 |-> {}, index0 |-> NoFile,
          cache0 |-> <<>>, sent |-> <<>>, batches |-> 0]

NoVector == [by |-> NoModel, of |-> <<>>]

NoResult == [status |-> "none", error |-> "-", call |-> NoCall, sent |-> <<>>,
             queried |-> FALSE, hits |-> <<>>, served |-> NoIdent, current |-> NoIdent,
             has_cache |-> FALSE, cache_keys |-> {}, batch |-> 0, path |-> "-",
             vector |-> NoVector, results |-> <<>>, loaded |-> <<>>, index_before |-> "-",
             requested |-> 0, shown |-> <<>>, kwargs |-> <<>>]

NoProviderCall == [ids |-> {}, keys0 |-> {}, batch |-> 0, texts |-> <<>>, vectors |-> <<>>]

\* the session threads that may use the engine at the same time
Sessions == {1, 2}

\* the locals of one _ensure_initialized: at is the statement it is about to execute
\* ("-": not running), val the value a call has returned and the next statement
\* stores, cache / books / i the locals of initialize_vectorstore and _embed_books,
\* file0 / index0 the cache file and the index as they were when the call began
NoRun == [at |-> "-", val |-> <<>>, cache |-> <<>>, books |-> <<>>, i |-> 0,
          file0 |-> NoFile, index0 |-> NoFile]

NoRuns == [t \in Sessions |-> NoRun]

\* the catalogue browser before the page is opened.  tab: the option chosen; last:
\* last_query / letter; n: the length of the list of the latest run; per_page:
\* BOOKS_PER_PAGE; page, page_input: st.session_state[page_key], [page_input_key];
\* event: what caused the latest run; out: "none" (no list was paginated), "error"
\* (st.number_input raised) or "shown"; shown: the length of the page returned
NoBrowser == [tab |-> "-", last |-> 0, n |-> 0, per_page |-> 0, page |-> 0, page_input |-> 0,
              event |-> "-", out |-> "none", shown |-> 0]

\* RecommendationEngine.__init__
NewEngine == [vs |-> NoneVS, ec |-> NoneEC, ident |-> NoIdent]

QueryTexts == { <<"A", "b">> }

\* a row with text, a row with blank text, and an id the catalogue does not have
QueryIds == {"b1", "b2", "unknown"}

\* the result counts asked for: the smallest and the largest
Counts == {1, MaxK}

\* the books render_similar_books is shown for and the counts chosen in its selectbox
SimilarCalls ==
    { [op |-> "similar", text |-> <<>>, book_id |-> b, k |-> n] :
         b \in QueryIds, n \in Counts }

\* the descriptions render_text_recommendations is asked for and the counts chosen
TextCalls ==
    { [op |-> "render_text", text |-> t, book_id |-> "-", k |-> n] :
         t \in QueryTexts, n \in Counts }

\* the calls of ui.py that start with the test of is_ml_enabled()
GatedOps == {"similar", "render_text"}

Calls ==
    { [op |-> "ensure", text |-> <<>>, book_id |-> "-", k |-> 0] }
    \cup { [op |-> "text", text |-> t, book_id |-> "-", k |-> k] :
             t \in QueryTexts, k \in Counts }
    \cup { [op |-> "book_id", text |-> <<>>, book_id |-> b, k |-> k] :
             b \in QueryIds, k \in Counts }

---------------------------------------------------------------------------
(* Dictionaries (id -> vector) *)

\* faulty variant of PickleDump: one item of the dictionary is not written
PickleDumpWithoutOne(cache) ==
    LET F[S \in SUBSET DOMAIN cache] ==
            IF S = {} THEN <<>>
            ELSE LET k == CHOOSE x \in S : TRUE
                 IN  Append(F[S \ {k}], <<k, cache[k]>>)
        all == F[DOMAIN cache]
    IN  IF all = <<>> THEN all ELSE Tail(all)

\* pickle.dump(cache, f): the stream holds the items (key, value) of the dictionary
\* one after the other
PickleDump(cache) ==
    LET F[S \in SUBSET DOMAIN cache] ==
            IF S = {} THEN <<>>
            ELSE LET k == CHOOSE x \in S : TRUE
                 IN  Append(F[S \ {k}], <<k, cache[k]>>)
    IN  F[DOMAIN cache]

\* pickle.load(f): the dictionary is rebuilt item by item from the stream
PickleLoad(stream) ==
    [k \in {stream[n][1] : n \in 1..Len(stream)} |->
        stream[CHOOSE n \in 1..Len(stream) : stream[n][1] = k][2]]

Keys(file) == IF file.st = "ok" THEN DOMAIN PickleLoad(file.data) ELSE {}

\* cache.get(book_id): None when the id is not a key
CacheGet(map, book_id) == IF book_id \in DOMAIN map THEN map[book_id] ELSE NoVector

Min(a, b) == IF a < b THEN a ELSE b

\* texts = [b["text"] for b in batch]
Texts(batch) == [j \in 1..Len(batch) |-> batch[j].text]

\* embeddings_model.embed_documents(texts): one vector per text, in the order given
EmbedDocuments(model, texts) == [j \in 1..Len(texts) |-> Embed(model, texts[j])]

\* faulty variant of MergeBatch: the j-th vector is stored under the id of the row
\* after the j-th (the last one under the first id)
MergeBatchShifted(cache, batch, vectors) ==
    LET n == Min(Len(batch), Len(vectors))
        F[j \in 0..n] ==
            IF j = 0 THEN cache
            ELSE LET id == batch[(j % n) + 1].book_id
                 IN  [x \in DOMAIN F[j-1] \cup {id} |-> IF x = id THEN vectors[j] ELSE F[j-1][x]]
    IN  F[n]

\* for book, vector in zip(batch, vectors): cache[book["book_id"]] = vector
MergeBatch(cache, batch, vectors) ==
    LET n == Min(Len(batch), Len(vectors))
        F[j \in 0..n] ==
            IF j = 0 THEN cache
            ELSE LET id == batch[j].book_id
                 IN  [x \in DOMAIN F[j-1] \cup {id} |-> IF x = id THEN vectors[j] ELSE F[j-1][x]]
    IN  F[n]

---------------------------------------------------------------------------
(* cache.py: the memoized loaders.  Each is given the memo and the files   *)
(* it reads, and is split into: does it raise, what does it return, what   *)
(* is memoized afterwards.  An exception is not memoized.                  *)

\* load_embeddings_cache(cache_dir_name): pickle.load of an unreadable file raises
LoadEmbeddingsCacheRaises(memo, d) == ~memo[d].hit /\ cacheFile[d].st = "corrupt"

LoadEmbeddingsCache(memo, d) ==
    IF memo[d].hit THEN memo[d].val
    ELSE IF cacheFile[d].st = "ok" THEN PickleLoad(cacheFile[d].data)
    ELSE <<>>

MemoCacheAfter(memo, d) ==
    IF memo[d].hit THEN memo
    ELSE [memo EXCEPT ![d] = [hit |-> TRUE, val |-> LoadEmbeddingsCache(memo, d)]]

VSHit(memo, s) == \E e \in memo : e.key = s

\* load_vectorstore(cache_dir_name, provider, local_model)
LoadVectorstoreRaises(memo, s) ==
    ~VSHit(memo, s) /\ faissIndex[s.cache_dir_name].st = "corrupt"

\* faulty variant of LoadVectorstore: the index directory is never found
LoadVectorstoreNeverFinds(memo, s) ==
    IF VSHit(memo, s) THEN (CHOOSE e \in memo : e.key = s).val ELSE NoneVS

LoadVectorstore(memo, s) ==
    IF VSHit(memo, s) THEN (CHOOSE e \in memo : e.key = s).val
    ELSE IF faissIndex[s.cache_dir_name].st = "ok"
         THEN [some |-> TRUE, docs |-> faissIndex[s.cache_dir_name].data,
               model |-> GetEmbeddings(s.provider, s.local_model)]
         ELSE NoneVS

MemoVSAfter(memo, s) ==
    IF VSHit(memo, s) THEN memo
    ELSE memo \cup {[key |-> s, val |-> LoadVectorstore(memo, s)]}

\* load_embeddings_cache.clear() / load_vectorstore.clear()
ClearedMemoCache == [d \in AllDirs |-> NoMemo]
ClearedMemoVS == {}

---------------------------------------------------------------------------
(* cache.py: initialize_vectorstore, _embed_books, _build_vectorstore      *)

\* faulty variant of BooksToEmbed: the blank-text test of line 81 is left out
BooksToEmbedNoBlankCheck(cache) ==
    LET keep == {j \in 1..Len(books_df) : books_df[j].bookId \notin DOMAIN cache}
        F[n \in 0..Len(books_df)] ==
            IF n = 0 THEN <<>>
            ELSE IF n \in keep
                 THEN Append(F[n-1], [book_id |-> books_df[n].bookId, title |-> books_df[n].title,
                                      text |-> ProcessText(cfg.lower_embeddings, books_df[n].text)])
                 ELSE F[n-1]
    IN  F[Len(books_df)]

\* faulty variant of BooksToEmbed: the "book_id not in cache" test of line 83 is left out
BooksToEmbedIgnoringCache(cache) ==
    LET keep == {j \in 1..Len(books_df) : ~IsBlank(books_df[j])}
        F[n \in 0..Len(books_df)] ==
            IF n = 0 THEN <<>>
            ELSE IF n \in keep
                 THEN Append(F[n-1], [book_id |-> books_df[n].bookId, title |-> books_df[n].title,
                                      text |-> ProcessText(cfg.lower_embeddings, books_df[n].text)])
                 ELSE F[n-1]
    IN  F[Len(books_df)]

\* faulty variant of BooksToEmbed: the first row that needs a vector is left out
BooksToEmbedWithoutFirst(cache) ==
    LET keep == {j \in 1..Len(books_df) :
                    ~IsBlank(books_df[j]) /\ books_df[j].bookId \notin DOMAIN cache}
        F[n \in 0..Len(books_df)] ==
            IF n = 0 THEN <<>>
            ELSE IF n \in keep
                 THEN Append(F[n-1], [book_id |-> books_df[n].bookId, title |-> books_df[n].title,
                                      text |-> ProcessText(cfg.lower_embeddings, books_df[n].text)])
                 ELSE F[n-1]
    IN  IF F[Len(books_df)] = <<>> THEN <<>> ELSE Tail(F[Len(books_df)])

\* initialize_vectorstore: the rows to embed, in catalogue order
BooksToEmbed(cache) ==
    LET keep == {j \in 1..Len(books_df) :
                    ~IsBlank(books_df[j]) /\ books_df[j].bookId \notin DOMAIN cache}
        F[n \in 0..Len(books_df)] ==
            IF n = 0 THEN <<>>
            ELSE IF n \in keep
                 THEN Append(F[n-1], [book_id |-> books_df[n].bookId, title |-> books_df[n].title,
                                      text |-> ProcessText(cfg.lower_embeddings, books_df[n].text)])
                 ELSE F[n-1]
    IN  F[Len(books_df)]

\* faulty variant of Batch: the slice runs to the end of the list
BatchToEnd(books, i, batch_size) == SubSeq(books, i + 1, Len(books))

\* batch = books[i:i + batch_size]   (i counts from 0)
Batch(books, i, batch_size) ==
    SubSeq(books, i + 1, IF i + batch_size < Len(books) THEN i + batch_size ELSE Len(books))

\* batch_num = i // batch_size + 1
BatchNum(i, batch_size) == (i \div batch_size) + 1

\* faulty variant of BuildDocs: the last catalogue row is not looked at
BuildDocsWithoutLastRow(cache) ==
    LET keep == {j \in 1..Len(books_df) :
                    books_df[j].bookId \in DOMAIN cache /\ ~IsBlank(books_df[j])}
        F[n \in 0..Len(books_df)] ==
            IF n = 0 THEN <<>>
            ELSE IF n \in keep
                 THEN Append(F[n-1], [text |-> ProcessText(cfg.lower_embeddings, books_df[n].text),
                                      vector |-> cache[books_df[n].bookId],
                                      book_id |-> books_df[n].bookId, title |-> books_df[n].title])
                 ELSE F[n-1]
    IN  F[IF Len(books_df) = 0 THEN 0 ELSE Len(books_df) - 1]

\* _build_vectorstore: the documents of the index, in catalogue order
BuildDocs(cache) ==
    LET keep == {j \in 1..Len(books_df) :
                    books_df[j].bookId \in DOMAIN cache /\ ~IsBlank(books_df[j])}
        F[n \in 0..Len(books_df)] ==
            IF n = 0 THEN <<>>
            ELSE IF n \in keep
                 THEN Append(F[n-1], [text |-> ProcessText(cfg.lower_embeddings, books_df[n].text),
                                      vector |-> cache[books_df[n].bookId],
                                      book_id |-> books_df[n].bookId, title |-> books_df[n].title])
                 ELSE F[n-1]
    IN  F[Len(books_df)]

DocIds(docs) == {docs[j].book_id : j \in 1..Len(docs)}

---------------------------------------------------------------------------
(* search.py *)

\* similarity_search_with_score(_by_vector)(.., k): min(k, n) distinct documents,
\* in the order the similarity library ranks them
Rankings(docs, k) ==
    LET m == Min(k, Len(docs))
    IN  {r \in [1..m -> 1..Len(docs)] : \A a, b \in 1..m : a # b => r[a] # r[b]}

\* what the similarity library returns for a ranking r: (doc, score) pairs in
\* non-decreasing distance; the distance of the j-th pair is modelled as j
SimilaritySearchWithScore(docs, r) == [j \in 1..Len(r) |-> [doc |-> docs[r[j]], score |-> j]]

\* faulty variant of Hits: the nearest hit is filtered out
HitsWithoutNearest(results) ==
    [j \in 1..Len(results) - 1 |->
        [book_id |-> results[j + 1].doc.book_id, title |-> results[j + 1].doc.title,
         score |-> results[j + 1].score]]

\* faulty variant of Hits: the hits are returned in the reverse order
HitsReversed(results) ==
    [j \in 1..Len(results) |->
        [book_id |-> results[Len(results) + 1 - j].doc.book_id,
         title |-> results[Len(results) + 1 - j].doc.title,
         score |-> results[Len(results) + 1 - j].score]]

\* [(doc.metadata["book_id"], doc.metadata.get("title", ""), score) for doc, score in results]
Hits(results) ==
    [j \in 1..Len(results) |->
        [book_id |-> results[j].doc.book_id, title |-> results[j].doc.title,
         score |-> results[j].score]]

---------------------------------------------------------------------------
(* ui.py: render_similar_books around recommend_by_book_id *)

\* faulty variant of EngineCount: num_results is handed on as it is
EngineCountAsChosen(call) == call.k

\* the count handed to the engine: ui.py line 211 asks for num_results + 1
EngineCount(call) == IF call.op = "similar" THEN call.k + 1 ELSE call.k

\* faulty variant of Shown: the source book is not filtered out
ShownWithSource(hits, book_id, num_results, books_dict) ==
    LET kept == SelectSeq(SubSeq(hits, 1, Min(num_results, Len(hits))),
                          LAMBDA h : h.book_id \in books_dict)
    IN  kept

\* ui.py lines 221-235: [r for r in results if r[0] != book_id][:num_results], of
\* which the books that books_dict holds are displayed
Shown(hits, book_id, num_results, books_dict) ==
    LET others == SelectSeq(hits, LAMBDA h : h.book_id # book_id)
        first == SubSeq(others, 1, Min(num_results, Len(others)))
    IN  SelectSeq(first, LAMBDA h : h.book_id \in books_dict)

---------------------------------------------------------------------------
(* recommendation_engine.py: the two queries, once _ensure_initialized has *)
(* returned                                                                *)

\* faulty variant of IsInitialized: the test of line 33 never succeeds
IsInitializedNever(eng) == FALSE

\* _ensure_initialized line 33: self._vectorstore is not None
IsInitialized(eng) == eng.vs.some

\* recommend_by_text: the text handed to search_by_text
QueryTextSent(t) == Lower(t)

\* faulty variant of BookIdLookup: the cache is indexed, cache[book_id], instead of
\* asked with .get, so that a missing id raises
BookIdLookupRaisesOnMissing(eng, book_id) ==
    IF ~eng.ec.some THEN "attribute_error"
    ELSE IF book_id \notin DOMAIN eng.ec.map THEN "attribute_error"
    ELSE "search"

\* recommend_by_book_id lines 74-79: self._embeddings_cache.get(book_id)
BookIdLookup(eng, book_id) ==
    IF ~eng.ec.some THEN "attribute_error"
    ELSE IF book_id \notin DOMAIN eng.ec.map THEN "empty"
    ELSE "search"

\* path: how _ensure_initialized went for this call: "noop" (returned at line 34),
\* "load" (the index was loaded, lines 39-40) or "build" (lines 43-46);
\* vector and results: what was handed to the similarity library and what it gave;
\* index_before: on the build path, the index file save_local found in its place;
\* requested: the count the engine was called with; shown: what render_similar_books
\* displays (books_dict holds the books of the catalogue)
Result(status, error, call, eng, sent, vector, queried, results, hits, path) ==
    [status |-> status, error |-> error, call |-> call, sent |-> sent,
     queried |-> queried, hits |-> hits, served |-> eng.ident, current |-> settings,
     has_cache |-> eng.ec.some, cache_keys |-> DOMAIN eng.ec.map, batch |-> 0,
     path |-> path, vector |-> vector, results |-> results, loaded |-> <<>>,
     index_before |-> IF path = "build" THEN faissIndex[settings.cache_dir_name].st ELSE "-",
     requested |-> IF call.op \in {"text", "render_text", "book_id", "similar"} /\ path # "-"
                   THEN EngineCount(call) ELSE 0,
     shown |-> IF call.op = "similar"
               THEN Shown(hits, call.book_id, call.k, BookIds) ELSE <<>>,
     kwargs |-> <<>>]

\* what the call returns when the engine is initialized
Respond(call, eng, path) ==
    CASE call.op \in {"text", "render_text"} ->
            \E r \in Rankings(eng.vs.docs, EngineCount(call)) :
                LET results == SimilaritySearchWithScore(eng.vs.docs, r)
                IN  lastResult' = Result("ok", "-", call, eng, QueryTextSent(call.text),
                                         NoVector, TRUE, results, Hits(results), path)
      [] call.op \in {"book_id", "similar"} /\ BookIdLookup(eng, call.book_id) = "search" ->
            LET embedding == CacheGet(eng.ec.map, call.book_id)
            IN  IF embedding = NoVector   \* search_by_vector: if embedding is None: return []
                THEN lastResult' = Result("ok", "-", call, eng, <<>>, NoVector, FALSE, <<>>,
                                          <<>>, path)
                ELSE \E r \in Rankings(eng.vs.docs, EngineCount(call)) :
                        LET results == SimilaritySearchWithScore(eng.vs.docs, r)
                        IN  lastResult' = Result("ok", "-", call, eng, <<>>, embedding, TRUE,
                                                 results, Hits(results), path)
      [] call.op \in {"book_id", "similar"} /\ BookIdLookup(eng, call.book_id) = "empty" ->
            lastResult' = Result("ok", "-", call, eng, <<>>, NoVector, FALSE, <<>>, <<>>, path)
      [] call.op \in {"book_id", "similar"} /\ BookIdLookup(eng, call.book_id) = "attribute_error" ->
            lastResult' = Result("error", "AttributeError", call, eng, <<>>, NoVector, FALSE,
                                 <<>>, <<>>, path)
      [] OTHER ->
            lastResult' = Result("ok", "-", call, eng, <<>>, NoVector, FALSE, <<>>, <<>>, path)

Raise(error, call, batch) ==
    lastResult' = [NoResult EXCEPT !.status = "error", !.error = error, !.call = call,
                                   !.current = settings, !.batch = batch]

---------------------------------------------------------------------------
(* cache.py: save_embeddings_cache *)

\* faulty variant of SaveEmbeddingsCache: nothing is written
SaveEmbeddingsCacheSkipped(file, cache) == file

\* faulty variant of SaveEmbeddingsCache: only the entries the file does not hold
\* yet are written
SaveEmbeddingsCacheDelta(file, cache) ==
    OkFile(PickleDump([id \in DOMAIN cache \ Keys(file) |-> cache[id]]))

\* faulty variant of SaveEmbeddingsCache: the entries of the file that the
\* dictionary lacks are kept
SaveEmbeddingsCacheMerging(file, cache) ==
    LET old == IF file.st = "ok" THEN PickleLoad(file.data) ELSE <<>>
    IN  OkFile(PickleDump([id \in DOMAIN old \cup DOMAIN cache |->
                              IF id \in DOMAIN cache THEN cache[id] ELSE old[id]]))

\* open(path, "wb") and pickle.dump(cache, f): the whole dictionary replaces the file
SaveEmbeddingsCache(file, cache) == OkFile(PickleDump(cache))

---------------------------------------------------------------------------
(* ui.py: what render_cache_selector can select, given the settings and    *)
(* the directories that exist                                              *)

Selections(s, ds) ==
    LET cache_options == {d \in ds : d # GeminiCacheDir}
    IN  {[provider |-> "gemini", local_model |-> s.local_model,
          cache_dir_name |-> GeminiCacheDir]}
        \cup {[provider |-> "local", local_model |-> m,
               cache_dir_name |-> LocalModelToCache(m)] : m \in LocalModelNames}
        \cup (IF cache_options # {}
              THEN {[provider |-> "lmstudio",
                     local_model |-> CacheToLocalModel(c, s.local_model),
                     cache_dir_name |-> c] : c \in cache_options}
              ELSE {[provider |-> "lmstudio",
                     local_model |-> CacheToLocalModel(s.cache_dir_name, s.local_model),
                     cache_dir_name |-> s.cache_dir_name]})

---------------------------------------------------------------------------
(* Initial states *)

InitProcess ==
    /\ memoCache = ClearedMemoCache
    /\ memoVS = ClearedMemoVS
    /\ engine = NewEngine
    /\ pc = "idle"
    /\ att = NoAtt
    /\ lastResult = NoResult
    /\ providerCall = NoProviderCall
    /\ faults = 0
    /\ remembered = NoIdent
    /\ runs = NoRuns
    /\ browser = NoBrowser

\* a fresh installation: no cache directory yet, Settings as _load leaves it
Init ==
    /\ books_df = Books
    /\ settings = DefaultSettings
    /\ cfg \in Configs
    /\ settings_json = FullJson(settings, cfg)
    /\ ml_enabled = "unset"
    /\ dirs = {}
    /\ cacheFile = [d \in AllDirs |-> NoFile]
    /\ faissIndex = [d \in AllDirs |-> NoFile]
    /\ InitProcess

---------------------------------------------------------------------------
(* Actions *)

\* recommend_by_text / recommend_by_book_id / _get_engine / render_similar_books:
\* _ensure_initialized up to the first provider call, and the query itself when the
\* engine is (or becomes) initialized without embedding
Call(call) ==
    /\ pc = "idle"
    /\ LET s == settings
           d == settings.cache_dir_name
       IN  IF call.op \in GatedOps /\ ml_enabled = "unset"
           THEN \* ui.py lines 136, 187: is_ml_enabled() reads Settings().ml_enabled
                /\ Raise("AttributeError", call, 0)
                /\ UNCHANGED <<engine, memoVS, memoCache, pc, att>>
           ELSE IF call.op \in GatedOps /\ ml_enabled = "false"
           THEN /\ lastResult' = Result("ok", "-", call, engine, <<>>, NoVector, FALSE, <<>>,
                                        <<>>, "-")
                /\ UNCHANGED <<engine, memoVS, memoCache, pc, att>>
           ELSE IF IsInitialized(engine)
           THEN /\ Respond(call, engine, "noop")
                /\ UNCHANGED <<engine, memoVS, memoCache, pc, att>>
           ELSE IF LoadVectorstoreRaises(memoVS, s)
           THEN /\ Raise("CorruptIndex", call, 0)
                /\ UNCHANGED <<engine, memoVS, memoCache, pc, att>>
           ELSE LET vs == LoadVectorstore(memoVS, s)
                IN  /\ memoVS' = MemoVSAfter(memoVS, s)
                    /\ IF LoadEmbeddingsCacheRaises(memoCache, d)
                       THEN /\ engine' = [engine EXCEPT !.vs = vs, !.ident = s]
                            /\ Raise("CorruptCache", call, 0)
                            /\ UNCHANGED <<memoCache, pc, att>>
                       ELSE LET ec == [some |-> TRUE, map |-> LoadEmbeddingsCache(memoCache, d)]
                                eng == [vs |-> vs, ec |-> ec, ident |-> s]
                            IN  /\ memoCache' = MemoCacheAfter(memoCache, d)
                                /\ engine' = eng
                                /\ IF vs.some
                                   THEN /\ Respond(call, eng, "load")
                                        /\ UNCHANGED <<pc, att>>
                                   ELSE LET books == BooksToEmbed(ec.map)
                                        IN  /\ att' = [call |-> call, cache |-> ec.map,
                                                       books |-> books, i |-> 0,
                                                       model |-> GetEmbeddings(s.provider, s.local_model),
                                                       ident |-> s,
                                                       keys0 |-> Keys(cacheFile[d]),
                                                       index0 |-> faissIndex[d],
                                                       cache0 |-> ec.map, sent |-> <<>>,
                                                       batches |-> 0]
                                            /\ pc' = IF books = <<>> THEN "build" ELSE "embed"
                                            /\ lastResult' = NoResult
    /\ providerCall' = NoProviderCall
    /\ UNCHANGED <<settings, settings_json, cfg, books_df, browser, runs, ml_enabled, dirs, cacheFile, faissIndex,
                   faults, remembered>>

BatchIds(batch) == {batch[j].book_id : j \in 1..Len(batch)}

\* _embed_books: one turn of the loop, embed_documents answering
EmbedBatch ==
    /\ pc = "embed"
    /\ LET d == settings.cache_dir_name
           batch == Batch(att.books, att.i, cfg.batch_size)
           texts == Texts(batch)
           vectors == EmbedDocuments(att.model, texts)
           cache == MergeBatch(att.cache, batch, vectors)
           next_i == att.i + cfg.batch_size
       IN  /\ providerCall' = [ids |-> BatchIds(batch), keys0 |-> att.keys0,
                               batch |-> BatchNum(att.i, cfg.batch_size),
                               texts |-> texts, vectors |-> vectors]
           /\ dirs' = dirs \cup {d}
           /\ cacheFile' = [cacheFile EXCEPT ![d] = SaveEmbeddingsCache(cacheFile[d], cache)]
           /\ att' = [att EXCEPT !.cache = cache, !.i = next_i,
                                 !.batches = att.batches + 1,
                                 !.sent = att.sent \o [j \in 1..Len(texts) |->
                                             [book_id |-> batch[j].book_id, text |-> texts[j]]]]
           /\ pc' = IF next_i >= Len(att.books) THEN "build" ELSE "embed"
    /\ UNCHANGED <<settings, settings_json, cfg, books_df, browser, runs, ml_enabled, faissIndex, memoCache, memoVS, engine,
                   lastResult, faults, remembered>>

\* _embed_books: embed_documents raises; the exception leaves _ensure_initialized
EmbedFail ==
    /\ pc = "embed"
    /\ LET batch == Batch(att.books, att.i, cfg.batch_size)
       IN  /\ providerCall' = [ids |-> BatchIds(batch), keys0 |-> att.keys0,
                               batch |-> BatchNum(att.i, cfg.batch_size),
                               texts |-> Texts(batch), vectors |-> <<>>]
           /\ Raise("ProviderFailure", att.call, BatchNum(att.i, cfg.batch_size))
    /\ pc' = "idle"
    /\ att' = NoAtt
    /\ UNCHANGED <<settings, settings_json, cfg, books_df, browser, runs, ml_enabled, dirs, cacheFile, faissIndex, memoCache,
                   memoVS, engine, faults, remembered>>

\* FAISS.from_embeddings (cache.py:151) is library code.  Given no document at all
\* it either raises or returns an empty index: both are possible answers.
FromEmbeddingsOutcomes(docs) == IF docs = <<>> THEN {"raises", "index"} ELSE {"index"}

\* _build_vectorstore, the two clear() calls, and lines 45-46 of _ensure_initialized
Build ==
    /\ pc = "build"
    /\ LET d == settings.cache_dir_name
           docs == BuildDocs(att.cache)
           vs == [some |-> TRUE, docs |-> docs, model |-> att.model]
       IN  \E outcome \in FromEmbeddingsOutcomes(docs) :
             IF outcome = "raises"
             THEN /\ Raise("EmptyIndex", att.call, 0)
                  /\ UNCHANGED <<dirs, faissIndex, memoVS, memoCache, engine>>
             ELSE /\ dirs' = dirs \cup {d}
                  /\ faissIndex' = [faissIndex EXCEPT ![d] = OkFile(docs)]
                  /\ memoVS' = ClearedMemoVS
                  /\ IF LoadEmbeddingsCacheRaises(ClearedMemoCache, d)
                     THEN /\ memoCache' = ClearedMemoCache
                          /\ engine' = [engine EXCEPT !.vs = vs]
                          /\ Raise("CorruptCache", att.call, 0)
                     ELSE LET eng == [vs |-> vs,
                                      ec |-> [some |-> TRUE,
                                              map |-> LoadEmbeddingsCache(ClearedMemoCache, d)],
                                      ident |-> att.ident]
                          IN  /\ memoCache' = MemoCacheAfter(ClearedMemoCache, d)
                              /\ engine' = eng
                              /\ Respond(att.call, eng, "build")
    /\ pc' = "idle"
    /\ att' = NoAtt
    /\ providerCall' = NoProviderCall
    /\ UNCHANGED <<settings, settings_json, cfg, books_df, browser, runs, ml_enabled, cacheFile, faults, remembered>>

\* Settings.update(cache_dir_name=.., provider=.., local_model=..) and save()
SettingsUpdate(ident) ==
    /\ pc = "idle"
    /\ ident # settings
    /\ settings' = ident
    /\ settings_json' = SaveData(settings_json, ident)
    /\ lastResult' = NoResult
    /\ providerCall' = NoProviderCall
    /\ UNCHANGED <<cfg, books_df, browser, runs, ml_enabled, dirs, cacheFile, faissIndex, memoCache, memoVS,
                   engine, pc, att, faults, remembered>>

\* render_cache_selector
RenderCacheSelector ==
    /\ pc = "idle"
    /\ IF ml_enabled = "unset"
       THEN /\ Raise("AttributeError", NoCall, 0)
            /\ UNCHANGED <<settings, settings_json, memoCache, memoVS, engine, remembered>>
       ELSE IF ml_enabled = "false"
       THEN /\ lastResult' = NoResult
            /\ UNCHANGED <<settings, settings_json, memoCache, memoVS, engine, remembered>>
       ELSE \E sel \in Selections(settings, dirs) :
                IF sel # settings
                THEN /\ settings' = sel
                     /\ settings_json' = SaveData(settings_json, sel)
                     /\ memoCache' = ClearedMemoCache
                     /\ memoVS' = ClearedMemoVS
                     /\ engine' = NewEngine
                     /\ remembered' \in {remembered, sel}
                     /\ lastResult' = NoResult
                ELSE /\ lastResult' = NoResult
                     /\ UNCHANGED <<settings, settings_json, memoCache, memoVS, engine, remembered>>
    /\ providerCall' = NoProviderCall
    /\ UNCHANGED <<cfg, books_df, browser, runs, ml_enabled, dirs, cacheFile, faissIndex, pc, att, faults>>

\* the process ends (also in the middle of an initialization) and a new one starts:
\* the memoized values and the engine are gone, the files stay
Restart ==
    /\ memoCache' = ClearedMemoCache
    /\ memoVS' = ClearedMemoVS
    /\ engine' = NewEngine
    /\ pc' = "idle"
    /\ att' = NoAtt
    /\ lastResult' = NoResult
    /\ providerCall' = NoProviderCall
    /\ UNCHANGED <<faults, remembered>>
    /\ UNCHANGED <<settings, settings_json, cfg, books_df, browser, runs, ml_enabled, dirs, cacheFile, faissIndex>>

\* a file of a cache directory becomes unreadable while no initialization runs
DiskFault ==
    /\ pc = "idle"
    /\ faults < MaxFaults
    /\ faults' = faults + 1
    /\ \E d \in AllDirs :
          \/ /\ cacheFile[d].st = "ok"
             /\ cacheFile' = [cacheFile EXCEPT ![d] = CorruptFile]
             /\ UNCHANGED faissIndex
          \/ /\ faissIndex[d].st = "ok"
             /\ faissIndex' = [faissIndex EXCEPT ![d] = CorruptFile]
             /\ UNCHANGED cacheFile
    /\ lastResult' = NoResult
    /\ providerCall' = NoProviderCall
    /\ UNCHANGED <<settings, settings_json, cfg, books_df, browser, runs, ml_enabled, dirs, memoCache, memoVS, engine, pc, att,
                   remembered>>

Next ==
    \/ \E call \in Calls : Call(call)
    \/ EmbedBatch
    \/ EmbedFail
    \/ Build
    \/ \E ident \in UpdateIdentities : SettingsUpdate(ident)
    \/ RenderCacheSelector
    \/ Restart
    \/ DiskFault

Spec == Init /\ [][Next]_vars

---------------------------------------------------------------------------
(* The selector alone, on a Settings object that has the ml_enabled        *)
(* attribute, over the cache directories an installation may hold          *)

InitSel ==
    /\ books_df = Books
    /\ settings = DefaultSettings
    /\ cfg \in Configs
    /\ settings_json = FullJson(settings, cfg)
    /\ ml_enabled \in {"true", "false"}
    /\ dirs \in {ds \in SUBSET AllDirs : Cardinality(ds) <= MaxInitDirs}
    /\ cacheFile = [d \in AllDirs |-> NoFile]
    /\ faissIndex = [d \in AllDirs |-> NoFile]
    /\ InitProcess

NextSel == RenderCacheSelector

SpecSel == InitSel /\ [][NextSel]_vars

---------------------------------------------------------------------------
(* Cold starts: no cache directory, a provider that always answers, and    *)
(* any short catalogue cut out of the pool, the empty one and the ones     *)
(* with blank rows only included                                           *)

ColdCatalogues ==
    LET cuts == {ab \in (1..Len(CataloguePool) + 1) \X (0..Len(CataloguePool)) :
                    ab[2] - ab[1] + 1 <= MaxColdRows}
    IN  {SubSeq(CataloguePool, ab[1], ab[2]) : ab \in cuts}

InitCold ==
    /\ books_df \in ColdCatalogues
    /\ settings = DefaultSettings
    /\ cfg \in Configs
    /\ settings_json = FullJson(settings, cfg)
    /\ ml_enabled = "unset"
    /\ dirs = {}
    /\ cacheFile = [d \in AllDirs |-> NoFile]
    /\ faissIndex = [d \in AllDirs |-> NoFile]
    /\ InitProcess

NextCold ==
    \/ \E call \in Calls : Call(call)
    \/ EmbedBatch
    \/ Build

SpecCold == InitCold /\ [][NextCold]_vars

---------------------------------------------------------------------------
(* save_embeddings_cache and load_embeddings_cache on their own: any       *)
(* dictionary over a few ids is saved, and a process that has memoized     *)
(* nothing loads the file                                                  *)

PickleMappings ==
    LET n == IF MaxPickleKeys < Len(CataloguePool) THEN MaxPickleKeys ELSE Len(CataloguePool)
        ids == {CataloguePool[i].bookId : i \in 1..n}
        vectors == {Embed(GetEmbeddings(DefaultSettings.provider, DefaultSettings.local_model),
                          CataloguePool[i].text) : i \in 1..n}
    IN  UNION {[S -> vectors] : S \in SUBSET ids}

\* save_embeddings_cache(cache); att.cache is the dictionary the caller handed over
SaveCache(cache) ==
    /\ pc = "idle"
    /\ LET d == settings.cache_dir_name
       IN  /\ dirs' = dirs \cup {d}
           /\ cacheFile' = [cacheFile EXCEPT ![d] = SaveEmbeddingsCache(cacheFile[d], cache)]
    /\ att' = [NoAtt EXCEPT !.cache = cache]
    /\ lastResult' = NoResult
    /\ providerCall' = NoProviderCall
    /\ UNCHANGED <<settings, settings_json, cfg, books_df, browser, runs, ml_enabled, faissIndex, memoCache, memoVS, engine,
                   pc, faults, remembered>>

\* load_embeddings_cache(cache_dir_name) in a process that has memoized nothing
LoadCacheFresh ==
    /\ pc = "idle"
    /\ LET d == settings.cache_dir_name
       IN  IF LoadEmbeddingsCacheRaises(ClearedMemoCache, d)
           THEN /\ memoCache' = ClearedMemoCache
                /\ lastResult' = [NoResult EXCEPT !.status = "error", !.error = "CorruptCache",
                                                  !.call.op = "load_embeddings_cache"]
           ELSE /\ memoCache' = MemoCacheAfter(ClearedMemoCache, d)
                /\ lastResult' = [NoResult EXCEPT !.status = "ok",
                                                  !.call.op = "load_embeddings_cache",
                                                  !.loaded = LoadEmbeddingsCache(ClearedMemoCache, d)]
    /\ memoVS' = ClearedMemoVS
    /\ engine' = NewEngine
    /\ providerCall' = NoProviderCall
    /\ UNCHANGED <<settings, settings_json, cfg, books_df, browser, runs, ml_enabled, dirs, cacheFile, faissIndex, pc, att,
                   faults, remembered>>

NextPickle ==
    \/ \E cache \in PickleMappings : SaveCache(cache)
    \/ LoadCacheFresh

SpecPickle == Init /\ [][NextPickle]_vars

---------------------------------------------------------------------------
(* One process, with another process saving an index into the directory    *)
(* this one works in while its initialize_vectorstore is under way         *)
(* (nothing coordinates the writers of a directory)                        *)

\* _build_vectorstore of another process: save_local into the same directory
IndexSavedByOtherProcess(cache) ==
    /\ pc \in {"embed", "build"}
    /\ LET d == settings.cache_dir_name
       IN  /\ faissIndex[d] # OkFile(BuildDocs(cache))
           /\ dirs' = dirs \cup {d}
           /\ faissIndex' = [faissIndex EXCEPT ![d] = OkFile(BuildDocs(cache))]
    /\ UNCHANGED <<settings, settings_json, cfg, books_df, browser, runs, ml_enabled, cacheFile, memoCache, memoVS, engine,
                   pc, att, lastResult, providerCall, faults, remembered>>

NextOther ==
    \/ \E call \in Calls : Call(call)
    \/ EmbedBatch
    \/ Build
    \/ \E cache \in PickleMappings : IndexSavedByOtherProcess(cache)

SpecOther == Init /\ [][NextOther]_vars

---------------------------------------------------------------------------
(* A process started in an installation that has run before: the cache     *)
(* directory holds what an earlier run over the first rows of the          *)
(* catalogue left (the catalogue has grown since), with or without the     *)
(* index that run saved at its end                                         *)

\* the dictionary an earlier run over the first n rows of the catalogue saved
CacheOfFirstRows(n) ==
    LET ids == {books_df[j].bookId : j \in {x \in 1..n : ~IsBlank(books_df[x])}}
        row(id) == CHOOSE j \in 1..n : books_df[j].bookId = id
        model == GetEmbeddings(settings.provider, settings.local_model)
    IN  [id \in ids |-> Embed(model, ProcessText(cfg.lower_embeddings, books_df[row(id)].text))]

InitWarm ==
    /\ books_df = Books
    /\ settings = DefaultSettings
    /\ cfg \in Configs
    /\ settings_json = FullJson(settings, cfg)
    /\ ml_enabled = "unset"
    /\ \E n \in 0..Len(books_df), index_saved \in BOOLEAN :
          LET cache == CacheOfFirstRows(n)
              d == settings.cache_dir_name
          IN  /\ dirs = IF cache = <<>> /\ ~index_saved THEN {} ELSE {d}
              /\ cacheFile = [x \in AllDirs |->
                                 IF x = d /\ cache # <<>>
                                 THEN SaveEmbeddingsCache(NoFile, cache) ELSE NoFile]
              /\ faissIndex = [x \in AllDirs |->
                                  IF x = d /\ index_saved /\ cache # <<>>
                                  THEN OkFile(BuildDocs(cache)) ELSE NoFile]
    /\ InitProcess

NextWarm ==
    \/ \E call \in Calls : Call(call)
    \/ EmbedBatch
    \/ EmbedFail
    \/ Build
    \/ Restart
    \/ DiskFault

SpecWarm == InitWarm /\ [][NextWarm]_vars

---------------------------------------------------------------------------
(* Two sessions of one Streamlit process use the engine for the first time *)
(* at once.  Each runs _ensure_initialized in its own thread, and threads  *)
(* are switched between statements, also between a call's return and the   *)
(* assignment of what it returned.  The memoized loaders are the shared     *)
(* st.cache_resource of the process (a lookup-or-compute is one step), the *)
(* files are shared, and a file is written in one step.                    *)

RaceFrame ==
    UNCHANGED <<books_df, browser, settings, settings_json, cfg, ml_enabled, pc, att, lastResult, providerCall,
                faults, remembered>>

\* two sessions call _ensure_initialized on the engine nobody has used yet
RaceStart ==
    /\ pc = "idle"
    /\ runs = NoRuns
    /\ engine = NewEngine
    /\ runs' = [t \in Sessions |->
                   [NoRun EXCEPT !.at = "L33", !.file0 = cacheFile[settings.cache_dir_name],
                                 !.index0 = faissIndex[settings.cache_dir_name]]]
    /\ RaceFrame
    /\ UNCHANGED <<dirs, cacheFile, faissIndex, memoCache, memoVS, engine>>

\* line 33: if self._vectorstore is not None: return
RaceCheck(t) ==
    /\ runs[t].at = "L33"
    /\ runs' = [runs EXCEPT ![t].at = IF IsInitialized(engine) THEN "done" ELSE "L39"]
    /\ RaceFrame
    /\ UNCHANGED <<dirs, cacheFile, faissIndex, memoCache, memoVS, engine>>

\* line 39, right-hand side: get_current_vectorstore()
RaceLoadVectorstore(t) ==
    /\ runs[t].at = "L39"
    /\ IF LoadVectorstoreRaises(memoVS, settings)
       THEN /\ runs' = [runs EXCEPT ![t].at = "raised"]
            /\ UNCHANGED memoVS
       ELSE /\ runs' = [runs EXCEPT ![t].at = "L39=", ![t].val = LoadVectorstore(memoVS, settings)]
            /\ memoVS' = MemoVSAfter(memoVS, settings)
    /\ RaceFrame
    /\ UNCHANGED <<dirs, cacheFile, faissIndex, memoCache, engine>>

\* lines 39 and 45, the assignment: self._vectorstore = ...
RaceStoreVectorstore(t) ==
    /\ runs[t].at \in {"L39=", "L45="}
    /\ engine' = [engine EXCEPT !.vs = runs[t].val, !.ident = settings]
    /\ runs' = [runs EXCEPT ![t].at = IF runs[t].at = "L39=" THEN "L40" ELSE "L46",
                            ![t].val = <<>>]
    /\ RaceFrame
    /\ UNCHANGED <<dirs, cacheFile, faissIndex, memoCache, memoVS>>

\* lines 40 and 46, right-hand side: get_current_embeddings_cache()
RaceLoadCache(t) ==
    /\ runs[t].at \in {"L40", "L46"}
    /\ LET d == settings.cache_dir_name
       IN  IF LoadEmbeddingsCacheRaises(memoCache, d)
           THEN /\ runs' = [runs EXCEPT ![t].at = "raised"]
                /\ UNCHANGED memoCache
           ELSE /\ runs' = [runs EXCEPT
                               ![t].at = IF runs[t].at = "L40" THEN "L40=" ELSE "L46=",
                               ![t].val = [some |-> TRUE,
                                           map |-> LoadEmbeddingsCache(memoCache, d)]]
                /\ memoCache' = MemoCacheAfter(memoCache, d)
    /\ RaceFrame
    /\ UNCHANGED <<dirs, cacheFile, faissIndex, memoVS, engine>>

\* lines 40 and 46, the assignment: self._embeddings_cache = ...
RaceStoreCache(t) ==
    /\ runs[t].at \in {"L40=", "L46="}
    /\ engine' = [engine EXCEPT !.ec = runs[t].val]
    /\ runs' = [runs EXCEPT ![t].at = IF runs[t].at = "L40=" THEN "L43" ELSE "done",
                            ![t].val = <<>>]
    /\ RaceFrame
    /\ UNCHANGED <<dirs, cacheFile, faissIndex, memoCache, memoVS>>

\* line 43: if self._vectorstore is None
RaceTest(t) ==
    /\ runs[t].at = "L43"
    /\ runs' = [runs EXCEPT ![t].at = IF engine.vs.some THEN "done" ELSE "L74"]
    /\ RaceFrame
    /\ UNCHANGED <<dirs, cacheFile, faissIndex, memoCache, memoVS, engine>>

\* initialize_vectorstore lines 72-90: the copy of the cache and the rows to embed
RaceBegin(t) ==
    /\ runs[t].at = "L74"
    /\ LET d == settings.cache_dir_name
       IN  IF LoadEmbeddingsCacheRaises(memoCache, d)
           THEN /\ runs' = [runs EXCEPT ![t].at = "raised"]
                /\ UNCHANGED memoCache
           ELSE LET cache == LoadEmbeddingsCache(memoCache, d)
                    books == BooksToEmbed(cache)
                IN  /\ runs' = [runs EXCEPT
                                   ![t].at = IF books = <<>> THEN "build" ELSE "embed",
                                   ![t].cache = cache, ![t].books = books, ![t].i = 0]
                    /\ memoCache' = MemoCacheAfter(memoCache, d)
    /\ RaceFrame
    /\ UNCHANGED <<dirs, cacheFile, faissIndex, memoVS, engine>>

\* _embed_books: one turn of the loop of session t
RaceEmbedBatch(t) ==
    /\ runs[t].at = "embed"
    /\ LET d == settings.cache_dir_name
           r == runs[t]
           batch == Batch(r.books, r.i, cfg.batch_size)
           vectors == EmbedDocuments(GetEmbeddings(settings.provider, settings.local_model),
                                     Texts(batch))
           cache == MergeBatch(r.cache, batch, vectors)
           next_i == r.i + cfg.batch_size
       IN  /\ dirs' = dirs \cup {d}
           /\ cacheFile' = [cacheFile EXCEPT ![d] = SaveEmbeddingsCache(cacheFile[d], cache)]
           /\ runs' = [runs EXCEPT ![t].cache = cache, ![t].i = next_i,
                                   ![t].at = IF next_i >= Len(r.books) THEN "build" ELSE "embed"]
    /\ RaceFrame
    /\ UNCHANGED <<faissIndex, memoCache, memoVS, engine>>

\* _build_vectorstore of session t: the index is built and saved
RaceBuild(t) ==
    /\ runs[t].at = "build"
    /\ LET d == settings.cache_dir_name
           docs == BuildDocs(runs[t].cache)
       IN  \E outcome \in FromEmbeddingsOutcomes(docs) :
             IF outcome = "raises"
             THEN /\ runs' = [runs EXCEPT ![t].at = "raised"]
                  /\ UNCHANGED <<dirs, faissIndex>>
             ELSE /\ dirs' = dirs \cup {d}
                  /\ faissIndex' = [faissIndex EXCEPT ![d] = OkFile(docs)]
                  /\ runs' = [runs EXCEPT
                                 ![t].at = "L95",
                                 ![t].val = [some |-> TRUE, docs |-> docs,
                                             model |-> GetEmbeddings(settings.provider,
                                                                     settings.local_model)]]
    /\ RaceFrame
    /\ UNCHANGED <<cacheFile, memoCache, memoVS, engine>>

\* initialize_vectorstore line 95: load_embeddings_cache.clear()
RaceClearCache(t) ==
    /\ runs[t].at = "L95"
    /\ memoCache' = ClearedMemoCache
    /\ runs' = [runs EXCEPT ![t].at = "L96"]
    /\ RaceFrame
    /\ UNCHANGED <<dirs, cacheFile, faissIndex, memoVS, engine>>

\* initialize_vectorstore lines 96-98: load_vectorstore.clear() and the return
RaceClearVectorstore(t) ==
    /\ runs[t].at = "L96"
    /\ memoVS' = ClearedMemoVS
    /\ runs' = [runs EXCEPT ![t].at = "L45="]
    /\ RaceFrame
    /\ UNCHANGED <<dirs, cacheFile, faissIndex, memoCache, engine>>

NextRace ==
    \/ RaceStart
    \/ \E t \in Sessions :
          \/ RaceCheck(t)
          \/ RaceLoadVectorstore(t)
          \/ RaceStoreVectorstore(t)
          \/ RaceLoadCache(t)
          \/ RaceStoreCache(t)
          \/ RaceTest(t)
          \/ RaceBegin(t)
          \/ RaceEmbedBatch(t)
          \/ RaceBuild(t)
          \/ RaceClearCache(t)
          \/ RaceClearVectorstore(t)

SpecRace == InitWarm /\ [][NextRace]_vars

---------------------------------------------------------------------------
(* The pages of ui.py (render_similar_books, render_text_recommendations,  *)
(* render_cache_selector) beside the engine's own calls, in an             *)
(* installation that has run before                                        *)

NextUI ==
    \/ \E call \in Calls \cup SimilarCalls \cup TextCalls : Call(call)
    \/ EmbedBatch
    \/ EmbedFail
    \/ Build
    \/ Restart

SpecUI == InitWarm /\ [][NextUI]_vars

\* the same with the sidebar, which every page renders
NextPages ==
    \/ NextUI
    \/ RenderCacheSelector

SpecPages == InitWarm /\ [][NextPages]_vars

\* the same on a Settings object that has the ml_enabled attribute
InitUIEnabled ==
    /\ books_df = Books
    /\ settings = DefaultSettings
    /\ cfg \in Configs
    /\ settings_json = FullJson(settings, cfg)
    /\ ml_enabled \in {"true", "false"}
    /\ dirs = {}
    /\ cacheFile = [d \in AllDirs |-> NoFile]
    /\ faissIndex = [d \in AllDirs |-> NoFile]
    /\ InitProcess

SpecUIEnabled == InitUIEnabled /\ [][NextUI]_vars

---------------------------------------------------------------------------
(* Settings on its own: update and reload over settings files that name    *)
(* any part of the options                                                 *)

\* the values a key of settings.json is given
FullFiles ==
    [cache_dir : {"cache", GeminiCacheDir}, provider : {"lmstudio", "gemini"},
     local_model : {"minilm", "qwen-8b"}, batch_size : {1, 512},
     batch_delay_seconds : {0, 1}, lower_embeddings : BOOLEAN,
     text_column : {"description", "title"}]

ValuesOf(a) == {full[JsonKey(a)] : full \in FullFiles}

\* Settings() in a new process: _load of the file
InitSettings ==
    /\ books_df = Books
    /\ \E full \in FullFiles, present \in SUBSET {JsonKey(a) : a \in SettingAttrs} :
          settings_json = [k \in present |-> full[k]]
    /\ settings = LoadSettings(settings_json)
    /\ cfg = LoadCfg(settings_json)
    /\ ml_enabled = "unset"
    /\ dirs = {}
    /\ cacheFile = [d \in AllDirs |-> NoFile]
    /\ faissIndex = [d \in AllDirs |-> NoFile]
    /\ InitProcess

\* Settings().update(**kwargs): setattr, the loop over _data, save() and its _load
Update(kwargs) ==
    /\ pc = "idle"
    /\ LET s == [a \in DOMAIN settings |->
                    IF a \in DOMAIN kwargs THEN kwargs[a] ELSE settings[a]]
           data == SaveData(UpdateData(settings_json, kwargs), s)
       IN  /\ settings_json' = data
           /\ settings' = LoadSettings(data)
           /\ cfg' = LoadCfg(data)
    /\ lastResult' = [NoResult EXCEPT !.status = "ok", !.call.op = "update",
                                      !.kwargs = kwargs]
    /\ providerCall' = NoProviderCall
    /\ UNCHANGED <<books_df, browser, runs, ml_enabled, dirs, cacheFile, faissIndex, memoCache, memoVS,
                   engine, pc, att, faults, remembered>>

\* Settings().reload() after an update
Reload ==
    /\ pc = "idle"
    /\ lastResult.call.op = "update"
    /\ settings' = LoadSettings(settings_json)
    /\ cfg' = LoadCfg(settings_json)
    /\ lastResult' = [lastResult EXCEPT !.call.op = "reload"]
    /\ providerCall' = NoProviderCall
    /\ UNCHANGED <<books_df, browser, runs, settings_json, ml_enabled, dirs, cacheFile, faissIndex,
                   memoCache, memoVS, engine, pc, att, faults, remembered>>

NextSettings ==
    \/ \E a \in SettingAttrs : \E v \in ValuesOf(a) : Update([k \in {a} |-> v])
    \/ Reload

SpecSettings == InitSettings /\ [][NextSettings]_vars

---------------------------------------------------------------------------
(* The catalogue browser: one tab, its widgets and callbacks               *)

BrowserFrame ==
    UNCHANGED <<books_df, settings, settings_json, cfg, ml_enabled, dirs, cacheFile,
                faissIndex, memoCache, memoVS, engine, pc, att, lastResult, providerCall,
                faults, remembered, runs>>

\* the page is opened on a tab: the first run of the script, "Books per page" at its
\* default (index=1), no query / the letter "All" (the whole catalogue)
BrowserOpen ==
    /\ browser = NoBrowser
    /\ \E tab \in {"search", "sort"} :
          LET b == [NoBrowser EXCEPT !.tab = tab, !.page_input = 1,
                                     !.last = IF tab = "search" THEN NoQuery ELSE MaxItems]
          IN  browser' \in ScriptRun(b, b.last, 10, "open")
    /\ BrowserFrame

\* "Next" pressed: next_page, then the rerun
BrowserNext ==
    /\ browser.out = "shown"
    /\ LET total_pages == TotalPages(browser.n, browser.per_page)
           page == IF browser.page < total_pages - 1 THEN browser.page + 1 ELSE 0
           b == [browser EXCEPT !.page = page, !.page_input = page + 1]
       IN  browser' \in ScriptRun(b, b.last, b.per_page, "next")
    /\ BrowserFrame

\* "Previous" pressed: prev_page, then the rerun
BrowserPrev ==
    /\ browser.out = "shown"
    /\ LET total_pages == TotalPages(browser.n, browser.per_page)
           page == IF browser.page > 0 THEN browser.page - 1 ELSE total_pages - 1
           b == [browser EXCEPT !.page = page, !.page_input = page + 1]
       IN  browser' \in ScriptRun(b, b.last, b.per_page, "prev")
    /\ BrowserFrame

\* "Go to page" changed to v (within min_value..max_value): go_to_page, then the rerun
BrowserGoTo(v) ==
    /\ browser.out = "shown"
    /\ v \in 1..TotalPages(browser.n, browser.per_page)
    /\ v # browser.page_input
    /\ LET b == [browser EXCEPT !.page = v - 1, !.page_input = v]
       IN  browser' \in ScriptRun(b, b.last, b.per_page, "goto")
    /\ BrowserFrame

\* another query is typed / another letter is selected
BrowserKey(key) ==
    /\ browser.tab # "-"
    /\ key # browser.last
    /\ browser.tab = "sort" => key # NoQuery
    /\ browser' \in ScriptRun(browser, key, browser.per_page, "key")
    /\ BrowserFrame

\* another "Books per page" is selected
BrowserPerPage(per_page) ==
    /\ browser.tab # "-"
    /\ per_page # browser.per_page
    /\ browser' \in ScriptRun(browser, browser.last, per_page, "per_page")
    /\ BrowserFrame

NextBrowser ==
    \/ BrowserOpen
    \/ BrowserNext
    \/ BrowserPrev
    \/ \E v \in 1..MaxItems : BrowserGoTo(v)
    \/ \E key \in {NoQuery} \cup 0..MaxItems : BrowserKey(key)
    \/ \E per_page \in PerPageOptions : BrowserPerPage(per_page)

SpecBrowser == Init /\ [][NextBrowser]_vars

---------------------------------------------------------------------------
(* Properties *)

ActiveDir == settings.cache_dir_name

Answered == lastResult.status = "ok" /\ lastResult.call.op \in {"text", "book_id"}

\* C1: a query is answered by the vectorstore and cache loaded under the identity
\* that is configured when the query is made
C1_AnsweredFromConfiguredIdentity ==
    Answered => lastResult.served = lastResult.current

\* C2: no embed_documents call of an attempt sends a row whose id was a key of the
\* persisted cache file when the attempt started
C2_PersistedRowsNotSentAgain ==
    providerCall.ids \cap providerCall.keys0 = {}

\* C3: no step removes a key from a readable persisted cache file
C3_CacheFileKeysNeverShrink ==
    [][\A d \in AllDirs :
          (cacheFile[d].st # "corrupt" /\ cacheFile'[d].st # "corrupt")
              => Keys(cacheFile[d]) \subseteq Keys(cacheFile'[d])]_vars

\* C4: whenever the engine holds a vectorstore, every id in it is a key of the
\* embeddings cache the engine holds
C4_IndexedIdsAreCacheKeys ==
    engine.vs.some =>
        /\ engine.ec.some
        /\ DocIds(engine.vs.docs) \subseteq DOMAIN engine.ec.map

\* C5: the text recommend_by_text hands to the search is the caller's text under
\* the normalization the rows got (lower-cased iff lower_embeddings)
C5_QueryNormalizedLikeRows ==
    (lastResult.status = "ok" /\ lastResult.call.op = "text")
        => lastResult.sent = ProcessText(cfg.lower_embeddings, lastResult.call.text)

HitIds == {lastResult.hits[j].book_id : j \in 1..Len(lastResult.hits)}

C7_MissingIdGivesEmptyList ==
    (/\ lastResult.status # "none"
     /\ lastResult.call.op = "book_id"
     /\ lastResult.has_cache
     /\ lastResult.call.book_id \notin lastResult.cache_keys)
        => /\ lastResult.status = "ok"
           /\ lastResult.hits = <<>>
           /\ ~lastResult.queried

\* an id outside the cache was asked for while the cache held other ids
C7_Witness ==
    /\ lastResult.call.op = "book_id"
    /\ lastResult.has_cache
    /\ lastResult.cache_keys # {}
    /\ lastResult.call.book_id \notin lastResult.cache_keys
    /\ lastResult.status = "ok"

\* C8: when embed_documents fails on batch j, the call raises, the engine holds no
\* vectorstore, the index is as it was when the attempt began, and the cache file
\* holds the vector of every row of batches 1..j-1
C8_FailureKeepsCompletedBatches ==
    [][(pc = "embed" /\ lastResult'.error = "ProviderFailure")
          => /\ lastResult'.status = "error"
             /\ pc' = "idle"
             /\ ~engine'.vs.some
             /\ faissIndex'[ActiveDir] = att.index0
             /\ \A j \in 1..Min(att.i, Len(att.books)) :
                   /\ cacheFile'[ActiveDir].st = "ok"
                   /\ att.books[j].book_id \in Keys(cacheFile'[ActiveDir])
                   /\ PickleLoad(cacheFile'[ActiveDir].data)[att.books[j].book_id]
                          = Embed(att.model, att.books[j].text)]_vars

\* embed_documents failed on a batch after the first
C8_Witness ==
    /\ lastResult.error = "ProviderFailure"
    /\ lastResult.batch >= 2
    /\ providerCall.batch = lastResult.batch
    /\ ~engine.vs.some

Unreadable(d) == cacheFile[d].st = "corrupt" \/ faissIndex[d].st = "corrupt"

\* C9: while the cache file or the index of the active directory is unreadable, a
\* call returns normally only on an engine that holds a loaded cache: no call is
\* served with a missing cache
C9_UnreadableFilesAlwaysRaise ==
    (/\ lastResult.status = "ok"
     /\ lastResult.call.op # "-"
     /\ Unreadable(ActiveDir))
        => lastResult.has_cache

Identity(s) == <<s.provider, s.local_model>>

C11_ReadyCallIsNoOp ==
    [][(/\ pc = "idle"
        /\ engine.vs.some
        /\ engine.ec.some
        /\ engine.ident = settings
        /\ lastResult'.call.op # "-")
          => /\ UNCHANGED <<engine, memoCache, memoVS, cacheFile, faissIndex, dirs>>
             /\ providerCall' = NoProviderCall
             /\ pc' = "idle"]_vars

\* _ensure_initialized was called again on an initialized engine and returned at once
C11_Witness ==
    /\ lastResult.status = "ok"
    /\ lastResult.call.op = "ensure"
    /\ lastResult.path = "noop"
    /\ lastResult.has_cache
    /\ engine.vs.some
    /\ engine.ident = settings

\* C12: from a cold start with a provider that never fails, a call that has ended
\* raised no error and left the engine initialized, and the cache file and the index
\* of the active directory both exist
C12_ColdStartEndsReadyWithBothFiles ==
    (pc = "idle" /\ lastResult.status # "none")
        => /\ lastResult.status = "ok"
           /\ engine.vs.some
           /\ engine.ec.some
           /\ cacheFile[ActiveDir].st = "ok"
           /\ faissIndex[ActiveDir].st = "ok"

\* the engine's vectorstore holds the document
InIndex(doc) == \E n \in 1..Len(engine.vs.docs) : engine.vs.docs[n] = doc

\* C13: recommend_by_book_id for an id that is a key of the cache the engine holds
\* queries the vectorstore with the vector cache[id] and the caller's k, and returns
\* one (book_id, title, score) triple for every hit the vectorstore gave, in the
\* same order: nothing is filtered out, the source id included
C13_BookIdReturnsRawSearchResult ==
    (/\ lastResult.status # "none"
     /\ lastResult.call.op = "book_id"
     /\ lastResult.has_cache
     /\ lastResult.call.book_id \in lastResult.cache_keys)
        => /\ lastResult.status = "ok"
           /\ lastResult.queried
           /\ lastResult.vector = engine.ec.map[lastResult.call.book_id]
           /\ Len(lastResult.results) = Min(lastResult.call.k, Len(engine.vs.docs))
           /\ \A j \in 1..Len(lastResult.results) : InIndex(lastResult.results[j].doc)
           /\ Len(lastResult.hits) = Len(lastResult.results)
           /\ \A j \in 1..Len(lastResult.hits) :
                 /\ lastResult.hits[j].book_id = lastResult.results[j].doc.book_id
                 /\ lastResult.hits[j].title = lastResult.results[j].doc.title
                 /\ lastResult.hits[j].score = lastResult.results[j].score

\* the source row itself is among the k results of recommend_by_book_id
C13_Witness ==
    /\ lastResult.status = "ok"
    /\ lastResult.call.op = "book_id"
    /\ lastResult.call.k = MaxK
    /\ Len(lastResult.hits) = MaxK
    /\ lastResult.call.book_id \in HitIds

\* C14: recommend_by_text returns at most k (book_id, title, score) triples in
\* non-decreasing distance: one triple for every hit the vectorstore gave, in the
\* vectorstore's order, none added and none dropped
C14_TextReturnsHitsInOrder ==
    (lastResult.status # "none" /\ lastResult.call.op = "text" /\ lastResult.error = "-")
        => /\ lastResult.status = "ok"
           /\ Len(lastResult.hits) <= lastResult.call.k
           /\ \A i, j \in 1..Len(lastResult.hits) :
                 i < j => lastResult.hits[i].score <= lastResult.hits[j].score
           /\ Len(lastResult.hits) = Len(lastResult.results)
           /\ \A j \in 1..Len(lastResult.hits) :
                 /\ InIndex(lastResult.results[j].doc)
                 /\ lastResult.hits[j].book_id = lastResult.results[j].doc.book_id
                 /\ lastResult.hits[j].title = lastResult.results[j].doc.title
                 /\ lastResult.hits[j].score = lastResult.results[j].score

\* recommend_by_text returned several hits, fewer than the index holds
C14_Witness ==
    /\ lastResult.status = "ok"
    /\ lastResult.call.op = "text"
    /\ Len(lastResult.hits) >= 2
    /\ Len(lastResult.hits) = lastResult.call.k
    /\ Len(engine.vs.docs) > lastResult.call.k

\* C15: load_embeddings_cache, in a process that has memoized nothing, returns a
\* mapping equal to the one last handed to save_embeddings_cache for that directory
\* (the empty mapping when nothing was saved), and does not raise
C15_SaveLoadRoundTrip ==
    lastResult.call.op = "load_embeddings_cache"
        => /\ lastResult.status = "ok"
           /\ lastResult.loaded = att.cache

\* a dictionary with several keys was saved and then loaded by a fresh process
C15_Witness ==
    /\ lastResult.call.op = "load_embeddings_cache"
    /\ lastResult.status = "ok"
    /\ cacheFile[ActiveDir].st = "ok"
    /\ Cardinality(DOMAIN att.cache) >= 2
    /\ DOMAIN lastResult.loaded = DOMAIN att.cache
    /\ \E a, b \in DOMAIN att.cache : att.cache[a] # att.cache[b]

\* C16: a turn of the loop of _embed_books that gets the vectors v1..vn for the rows
\* r1..rn of its batch leaves cache[ri.id] = vi for every i, and every other key of
\* the cache with the value it had
C16_VectorBoundToItsRow ==
    [][(pc = "embed" /\ pc' # "idle")
          => LET batch == Batch(att.books, att.i, cfg.batch_size)
             IN  /\ Len(providerCall'.vectors) = Len(batch)
                 /\ \A j \in 1..Len(batch) :
                       /\ providerCall'.texts[j] = batch[j].text
                       /\ batch[j].book_id \in DOMAIN att'.cache
                       /\ att'.cache[batch[j].book_id] = providerCall'.vectors[j]
                 /\ DOMAIN att'.cache = DOMAIN att.cache \cup BatchIds(batch)
                 /\ \A id \in DOMAIN att.cache \ BatchIds(batch) :
                       att'.cache[id] = att.cache[id]]_vars

\* a batch of several rows with different vectors has been merged into the cache
C16_Witness ==
    /\ pc \in {"embed", "build"}
    /\ Len(providerCall.vectors) >= 2
    /\ providerCall.vectors[1] # providerCall.vectors[2]
    /\ providerCall.ids \subseteq DOMAIN att.cache

\* the rows of the batches initialize_vectorstore has completed so far
CompletedRows == 1..Min(att.i, Len(att.books))

\* C17: while _embed_books runs, once a batch is completed the cache file holds the
\* whole in-memory dictionary: the dictionary the run began with and the entries
\* of every batch completed so far, never the latest batch alone
C17_FileIsFullSnapshot ==
    (pc \in {"embed", "build"} /\ att.i > 0)
        => /\ cacheFile[ActiveDir].st = "ok"
           /\ PickleLoad(cacheFile[ActiveDir].data) = att.cache
           /\ DOMAIN att.cache
                 = DOMAIN att.cache0 \cup {att.books[j].book_id : j \in CompletedRows}
           /\ \A id \in DOMAIN att.cache0 : att.cache[id] = att.cache0[id]
           /\ \A j \in CompletedRows :
                 att.cache[att.books[j].book_id] = Embed(att.model, att.books[j].text)

\* a run that began with a non-empty dictionary has completed two batches
C17_Witness ==
    /\ pc \in {"embed", "build"}
    /\ att.cache0 # <<>>
    /\ providerCall.batch >= 2
    /\ providerCall.vectors # <<>>
    /\ Cardinality(Keys(cacheFile[ActiveDir])) > Cardinality(providerCall.ids) + 1

\* the catalogue rows (by position) that the run has to embed: text not blank and id
\* not a key of the dictionary the run began with
WorkRows ==
    {j \in 1..Len(books_df) :
        ~IsBlank(books_df[j]) /\ books_df[j].bookId \notin DOMAIN att.cache0}

\* the n-th of the work rows in catalogue order
NthWorkRow(n) == CHOOSE j \in WorkRows : Cardinality({x \in WorkRows : x <= j}) = n

\* C18: the rows whose texts initialize_vectorstore sends to the provider are the
\* rows with non-blank text whose id is not a key of the dictionary the run began
\* with, in catalogue order, each once: while the run embeds, what was sent is a
\* prefix of that list, and when the run reaches _build_vectorstore it is that list
C18_SentRowsAreTheWorkSet ==
    (pc \in {"embed", "build"})
        => /\ Len(att.sent) <= Cardinality(WorkRows)
           /\ pc = "build" => Len(att.sent) = Cardinality(WorkRows)
           /\ \A n \in 1..Len(att.sent) :
                 /\ att.sent[n].book_id = books_df[NthWorkRow(n)].bookId
                 /\ att.sent[n].text
                       = ProcessText(cfg.lower_embeddings, books_df[NthWorkRow(n)].text)

\* a run that began with a non-empty dictionary, on a catalogue with blank rows, has
\* sent all its rows
C18_Witness ==
    /\ pc = "build"
    /\ att.cache0 # <<>>
    /\ BlankIds # {}
    /\ Len(att.sent) >= 2
    /\ Len(att.sent) < Len(books_df)

CeilDiv(n, d) == (n + d - 1) \div d

\* C19: _embed_books cuts its n rows into ceil(n / batch_size) consecutive batches,
\* all of batch_size rows but possibly the last, and takes them one after another:
\* whenever embed_documents is about to be called, every earlier batch was full, is
\* merged into the dictionary and is in the cache file; the call sends the next
\* min(batch_size, rows left) rows, and the loop ends exactly after batch
\* ceil(n / batch_size)
C19_BatchesInSequence ==
    [][pc = "embed"
          => LET n == Len(att.books)
                 done == Len(att.sent)
                 size == Min(cfg.batch_size, n - done)
             IN  /\ done = att.batches * cfg.batch_size
                 /\ done < n
                 /\ att.batches < CeilDiv(n, cfg.batch_size)
                 /\ att.batches > 0 =>
                       /\ cacheFile[ActiveDir].st = "ok"
                       /\ PickleLoad(cacheFile[ActiveDir].data) = att.cache
                 /\ \A j \in 1..done : att.books[j].book_id \in DOMAIN att.cache
                 /\ providerCall'.batch # 0 =>
                       /\ providerCall'.batch = att.batches + 1
                       /\ Len(providerCall'.texts) = size
                       /\ \A j \in 1..size :
                             providerCall'.texts[j] = att.books[done + j].text
                 /\ pc' # "idle" =>
                       /\ att'.batches = att.batches + 1
                       /\ Len(att'.sent) = done + size
                       /\ (pc' = "build") = (att'.batches = CeilDiv(n, cfg.batch_size))]_vars

\* the loop has ended after a full batch and a shorter last one
C19_Witness ==
    /\ pc = "build"
    /\ cfg.batch_size >= 2
    /\ att.batches >= 2
    /\ Len(att.sent) = Len(att.books)
    /\ Len(att.books) % cfg.batch_size # 0

\* the catalogue rows (by position) _build_vectorstore makes a document of
IndexedRows ==
    {j \in 1..Len(books_df) :
        books_df[j].bookId \in DOMAIN att.cache /\ ~IsBlank(books_df[j])}

\* C20: when _build_vectorstore has built the vectorstore, it holds one document for
\* every catalogue row that has a cache entry and non-blank text, with the vector
\* cache[id], the row's processed text and the metadata book_id and title of the
\* row, and no other document; and the index file of the active directory is that
\* index, whatever was saved there before
C20_BuiltIndexContents ==
    [][(pc = "build" /\ lastResult'.path = "build")
          => LET docs == engine'.vs.docs
             IN  /\ engine'.vs.some
                 /\ Len(docs) = Cardinality(IndexedRows)
                 /\ \A j \in IndexedRows :
                       \E n \in 1..Len(docs) :
                          /\ docs[n].book_id = books_df[j].bookId
                          /\ docs[n].title = books_df[j].title
                          /\ docs[n].vector = att.cache[books_df[j].bookId]
                          /\ docs[n].text = ProcessText(cfg.lower_embeddings, books_df[j].text)
                 /\ \A n \in 1..Len(docs) :
                       \E j \in IndexedRows : docs[n].book_id = books_df[j].bookId
                 /\ faissIndex'[ActiveDir] = OkFile(docs)]_vars

\* an index was built and saved where another index had been saved
C20_Witness ==
    /\ lastResult.path = "build"
    /\ lastResult.index_before = "ok"
    /\ BlankIds # {}
    /\ Len(engine.vs.docs) >= 2
    /\ faissIndex[ActiveDir] = OkFile(engine.vs.docs)

\* the non-blank catalogue rows whose id is not a key of the cache the engine holds
UncachedRows ==
    {j \in 1..Len(books_df) :
        ~IsBlank(books_df[j]) /\ books_df[j].bookId \notin DOMAIN engine.ec.map}

\* C21: when the index of the active directory exists, an _ensure_initialized on an
\* engine that is not initialized yet calls embed_documents zero times and writes
\* neither the cache file nor the index, whatever rows the cache lacks, and, unless
\* the cache file is unreadable, leaves the engine with the index as saved and the
\* cache as saved; the embedding loop and the index build are entered only from a
\* state where no index exists
C21_ExistingIndexIsLoadedOnly ==
    [][(pc = "idle" /\ \E call \in Calls : Call(call))
          => /\ (~IsInitialized(engine) /\ faissIndex[ActiveDir].st = "ok")
                  => /\ providerCall' = NoProviderCall
                     /\ UNCHANGED <<cacheFile, faissIndex, dirs>>
                     /\ pc' = "idle"
                     /\ engine'.vs.some
                     /\ engine'.vs.docs = faissIndex[ActiveDir].data
                     /\ cacheFile[ActiveDir].st # "corrupt"
                           => /\ lastResult'.path = "load"
                              /\ engine'.ec.some
                              /\ DOMAIN engine'.ec.map = Keys(cacheFile[ActiveDir])
                              /\ \A id \in DOMAIN engine'.ec.map :
                                    engine'.ec.map[id]
                                        = PickleLoad(cacheFile[ActiveDir].data)[id]
             /\ pc' # "idle" => faissIndex[ActiveDir].st = "absent"]_vars

\* an engine was initialized by loading an index while the catalogue has non-blank
\* rows that the cache does not hold
C21_Witness ==
    /\ lastResult.path = "load"
    /\ lastResult.status = "ok"
    /\ engine.vs.some
    /\ engine.ec.some
    /\ UncachedRows # {}
    /\ pc = "idle"

\* the ids session t has written to the cache file in the batches it completed
PersistedBy(t) ==
    {runs[t].books[j].book_id : j \in 1..Min(runs[t].i, Len(runs[t].books))}

\* C22: nothing coordinates two initialize_vectorstore runs on one cache directory:
\* a save_embeddings_cache of one run replaces the file by that run's dictionary,
\* whatever the other run has written, so every entry the other run had persisted
\* and the saving run does not hold is gone from the file after the save
C22_SaveOverwritesOtherRun ==
    [][\A t \in Sessions :
          (runs[t].at = "embed" /\ runs'[t] # runs[t])
              => /\ cacheFile'[ActiveDir].st = "ok"
                 /\ PickleLoad(cacheFile'[ActiveDir].data) = runs'[t].cache
                 /\ \A u \in Sessions \ {t} :
                       Keys(cacheFile'[ActiveDir]) \cap PersistedBy(u)
                           = DOMAIN runs'[t].cache \cap PersistedBy(u)]_vars

\* while both runs embed, the cache file lacks an entry that one of them had
\* already persisted: the other run's save has overwritten it
C22_Witness ==
    \E t, u \in Sessions :
        /\ t # u
        /\ runs[t].at \in {"embed", "build"}
        /\ runs[u].at \in {"embed", "build"}
        /\ cacheFile[ActiveDir].st = "ok"
        /\ PickleLoad(cacheFile[ActiveDir].data) = runs[t].cache
        /\ PersistedBy(u) \ Keys(cacheFile[ActiveDir]) # {}

\* what one _ensure_initialized alone leaves in the engine, given the cache file and
\* the index it finds: the index and the cache as saved, or (no index) the cache
\* completed with the vector of every row to embed and the index built from it
SerialInit(file0, index0) ==
    LET cached == IF file0.st = "ok" THEN PickleLoad(file0.data) ELSE <<>>
        books == BooksToEmbed(cached)
        model == GetEmbeddings(settings.provider, settings.local_model)
        full == MergeBatch(cached, books, EmbedDocuments(model, Texts(books)))
    IN  IF index0.st = "ok"
        THEN [docs |-> index0.data, map |-> cached]
        ELSE [docs |-> BuildDocs(full), map |-> full]

\* C23: when the two _ensure_initialized calls that raced on the first use of the
\* engine have both returned, the engine holds a vectorstore and a cache with the
\* contents one call alone would have left, and every id of the vectorstore is a
\* key of the cache
C23_RaceOnlyRepeatsWork ==
    (\A t \in Sessions : runs[t].at = "done")
        => LET serial == SerialInit(runs[1].file0, runs[1].index0)
           IN  /\ engine.vs.some
               /\ engine.ec.some
               /\ engine.vs.docs = serial.docs
               /\ engine.ec.map = serial.map
               /\ DocIds(engine.vs.docs) \subseteq DOMAIN engine.ec.map

ShownIds == {lastResult.shown[j].book_id : j \in 1..Len(lastResult.shown)}

\* C24: every render_similar_books for a book and a chosen count n (its button
\* pressed, ML not disabled, the engine loaded) calls recommend_by_book_id with n + 1
\* and does not raise; what it displays is the first n of the returned triples whose
\* id is not the book's: at most n entries, never the book itself, in the engine's
\* order
C24_SimilarShowsFirstNOthers ==
    (/\ lastResult.call.op = "similar"
     /\ ml_enabled # "false"
     /\ lastResult.error \notin {"ProviderFailure", "CorruptIndex", "CorruptCache",
                                 "EmptyIndex"})
        => LET n == lastResult.call.k
               hits == lastResult.hits
               others == SelectSeq(hits, LAMBDA h : h.book_id # lastResult.call.book_id)
           IN  /\ lastResult.status = "ok"
               /\ lastResult.requested = n + 1
               /\ Len(hits) <= n + 1
               /\ Len(lastResult.shown) <= n
               /\ lastResult.call.book_id \notin ShownIds
               /\ lastResult.shown = SubSeq(others, 1, Min(n, Len(others)))

\* render_similar_books got n + 1 hits, the book itself among them, and shows n
C24_Witness ==
    /\ lastResult.call.op = "similar"
    /\ lastResult.status = "ok"
    /\ Len(lastResult.hits) = lastResult.call.k + 1
    /\ lastResult.call.book_id \in HitIds
    /\ Len(lastResult.shown) = lastResult.call.k

\* C25: the engine never holds a vectorstore without holding an embeddings cache,
\* also after an _ensure_initialized that raised, and no call that found the engine
\* initialized fails to look up the cache
C25_VectorstoreOnlyWithCache ==
    /\ engine.vs.some => engine.ec.some
    /\ lastResult.path = "noop" => lastResult.error # "AttributeError"

\* the dictionary the cache file of a directory holds (empty when there is no file)
Persisted(d) == IF cacheFile[d].st = "ok" THEN PickleLoad(cacheFile[d].data) ELSE <<>>

\* C26: whenever a call can be made, what get_current_embeddings_cache would return
\* for a directory (the memoized value of load_embeddings_cache, or what it loads)
\* is the dictionary the directory's cache file holds at that moment: no memoized
\* value outlives a save_embeddings_cache to its directory
C26_MemoizedCacheIsTheFile ==
    \A d \in AllDirs :
        (pc = "idle" /\ cacheFile[d].st # "corrupt")
            => LoadEmbeddingsCache(memoCache, d) = Persisted(d)

\* the ids of the catalogue rows with non-blank text
TextIds == BookIds \ BlankIds

\* C27: when _ensure_initialized has initialized the engine by building the index
\* (embed_documents gave one vector per text), every catalogue row with non-blank
\* text is a key of the cache file of the active directory, a key of the cache the
\* engine holds, and a document of the vectorstore the engine holds
C27_BuildCoversEveryTextRow ==
    (lastResult.path = "build" /\ lastResult.status = "ok")
        => /\ engine.vs.some
           /\ engine.ec.some
           /\ TextIds \subseteq Keys(cacheFile[ActiveDir])
           /\ TextIds \subseteq DOMAIN engine.ec.map
           /\ TextIds \subseteq DocIds(engine.vs.docs)

\* an engine was initialized by a build that had to embed some rows and found the
\* others in the cache, on a catalogue that has blank rows too
C27_Witness ==
    /\ lastResult.path = "build"
    /\ lastResult.status = "ok"
    /\ BlankIds # {}
    /\ Cardinality(TextIds) >= 3
    /\ TextIds \subseteq DocIds(engine.vs.docs)
    /\ Keys(cacheFile[ActiveDir]) = TextIds

\* Settings().a
Attr(a) == IF a \in DOMAIN settings THEN settings[a] ELSE cfg[a]

\* C28: after Settings.update(k=v), and after a Settings.reload() that follows it,
\* Settings().k is v and settings.json holds v under the key of k, whether the file
\* named the key before or not
C28_UpdateSticks ==
    lastResult.call.op \in {"update", "reload"}
        => \A a \in DOMAIN lastResult.kwargs :
              /\ Attr(a) = lastResult.kwargs[a]
              /\ JsonKey(a) \in DOMAIN settings_json
              /\ settings_json[JsonKey(a)] = lastResult.kwargs[a]

\* C29: after every event of the catalogue browser, the stored page index of the
\* list on display is at least 0 and below total_pages, and the page returned for a
\* list that is not empty is not empty; "Next" on the last page leads to page 0 and
\* "Previous" on page 0 to the last page
C29_PageIndexInRange ==
    [][LET b == browser'
           total_pages == TotalPages(b.n, b.per_page)
       IN  /\ b.out # "none" => (0 <= b.page /\ b.page < total_pages)
           /\ (b.out = "shown" /\ b.n > 0) => b.shown > 0
           /\ (b.event = "next" /\ browser.page = total_pages - 1) => b.page = 0
           /\ (b.event = "prev" /\ browser.page = 0) => b.page = total_pages - 1]_vars

\* the call raised at the test of Settings().ml_enabled
GateRaised(r) == r.status = "error" /\ r.error = "AttributeError" /\ r.path = "-"

\* C30: is_ml_enabled() returns a boolean and never raises: render_cache_selector,
\* render_similar_books and render_text_recommendations do not fail at its test; with
\* ML disabled they return without asking the engine for anything, and with ML
\* enabled they go on to the engine
C30_MlGateNeverRaises ==
    [][/\ RenderCacheSelector => ~GateRaised(lastResult')
       /\ \A call \in SimilarCalls \cup TextCalls :
             Call(call) =>
                /\ ~GateRaised(lastResult')
                /\ ml_enabled \in {"true", "false"}
                /\ ml_enabled = "false" =>
                      (lastResult'.status = "ok" /\ lastResult'.requested = 0
                       /\ ~lastResult'.queried /\ lastResult'.results = <<>>
                       /\ engine' = engine /\ pc' = "idle")
                /\ ml_enabled = "true" =>
                      (pc' # "idle" \/ lastResult'.status = "error"
                       \/ lastResult'.requested = EngineCount(call))]_vars

=============================================================================
